---- MODULE Spec2Model ----
(***************************************************************************)
(* Model of pkg/cmd/validate.go of kubectl-validate: the report aggregator *)
(* (FilesErrors), the command (Run), the per-file loop (ValidateFile), the  *)
(* manifest dispatcher (ValidateDocument) and the two renderers.            *)
(*                                                                         *)
(* Three specifications share the variables:                               *)
(*   Spec        one run of commandFlags.Run                               *)
(*   SpecDoc     ValidateDocument applied to one document                  *)
(*   SpecReport  the FilesErrors queries and renderers applied to a mapping*)
(***************************************************************************)
EXTENDS Integers, Sequences, FiniteSets, TLC

VARIABLES
    pc,            \* position of the command / of the function under check
    outputFormat,  \* commandFlags.outputFormat
    isYaml,        \* utils.IsYaml, a fixed property of each path
    factoryErr,    \* validatorfactory.New returned an error
    findErr,       \* utils.FindFiles returned an error
    marshalErr,    \* json.MarshalIndent returned an error
    files,         \* the result of utils.FindFiles
    idx,           \* index of the next file of the loop of Run
    filesErrors,   \* the FilesErrors map of Run
    last,          \* the most recent ValidateFile call: its inputs and calls
    out,           \* what printHumanErrors wrote to outWriter, in order
    errOut,        \* what printHumanErrors wrote to errWriter, in order
    jsonOut,       \* the map printJsonErrors marshalled
    query,         \* results of hasError / hasFileError
    ret,           \* what Run returned
    doc,           \* SpecDoc: the document given to ValidateDocument
    docRes         \* SpecDoc: what ValidateDocument did with it

vars == <<pc, outputFormat, isYaml, factoryErr, findErr, marshalErr, files,
          idx, filesErrors, last, out, errOut, jsonOut, query, ret, doc, docRes>>

(***************************************************************************)
(* Bounds                                                                  *)
(***************************************************************************)
MaxFiles == 2      \* files returned by FindFiles
MaxDocs == 2       \* documents in one YAML file
MaxEntries == 2    \* entries of one path in a FilesErrors mapping
MaxAgg == 2        \* members of one aggregate error

Paths == {"f1", "f2"}

SeqsUpTo(S, n) == UNION {[1..k -> S] : k \in 0..n}

(***************************************************************************)
(* Error values.  k is the dynamic type, msg the text (the reason of a      *)
(* status error, the path of a field error), inner the wrapped error of a   *)
(* fmt.Errorf("%w") or the members of an aggregate.                         *)
(***************************************************************************)
Nil == [k |-> "nil", msg |-> "", inner |-> <<>>]
Plain(m) == [k |-> "plain", msg |-> m, inner |-> <<>>]
Wrap(m, e) == [k |-> "wrap", msg |-> m, inner |-> <<e>>]
StatusErr(reason) == [k |-> "status", msg |-> reason, inner |-> <<>>]
FieldErr(path) == [k |-> "field", msg |-> path, inner |-> <<>>]
Aggregate(es) == [k |-> "aggregate", msg |-> "", inner |-> es]

\* errors.As(err, &target): walk the Unwrap chain until an error of the
\* target type is found.  Only a %w wrapper unwraps; a status error, a field
\* error and an aggregate have no Unwrap method.
RECURSIVE As(_, _)
As(err, target) ==
    IF err.k = target THEN err
    ELSE IF err.k = "wrap" THEN As(err.inner[1], target)
    ELSE Nil

\* err.Error()
RECURSIVE ErrorText(_)
ErrorText(err) ==
    IF err.k = "wrap" THEN <<err.msg>> \o ErrorText(err.inner[1])
    ELSE IF err.k = "aggregate"
         THEN IF Len(err.inner) = 0 THEN <<>>
              ELSE ErrorText(Head(err.inner))
                   \o ErrorText(Aggregate(Tail(err.inner)))
    ELSE <<err.msg>>

(***************************************************************************)
(* Documents.  apiVersion is the list of its "/"-separated segments, so     *)
(* <<>> is "", <<"v1">> is "v1" and <<"apps", "v1">> is "apps/v1".          *)
(* failAt names the first call into a collaborator that fails for this      *)
(* document, nsScoped what Validators.IsNamespaceScoped answers.            *)
(***************************************************************************)
APIVersions == {<<>>, <<"v1">>, <<"apps", "v1">>,
                <<"apiextensions.k8s.io", "v1">>, <<"a", "b", "c">>}
Kinds == {"", "Pod", "CustomResourceDefinition"}
Namespaces == {"", "ns1"}
FailPoints == {"none", "resolve", "ssErr", "ssNil", "decoder", "media",
               "decode", "accessor", "before"}

EmptyDoc == [empty |-> TRUE, parses |-> TRUE, apiVersion |-> <<>>, kind |-> "",
             namespace |-> "", nsScoped |-> FALSE, failAt |-> "none"]

BadYaml == [empty |-> FALSE, parses |-> FALSE, apiVersion |-> <<>>, kind |-> "",
            namespace |-> "", nsScoped |-> FALSE, failAt |-> "none"]

Docs == {EmptyDoc, BadYaml} \cup
        [empty : {FALSE}, parses : {TRUE}, apiVersion : APIVersions,
         kind : Kinds, namespace : Namespaces, nsScoped : BOOLEAN,
         failAt : FailPoints]

\* schema.ParseGroupVersion as used by FromAPIVersionAndKind: "" and "/" are
\* the empty group-version, no slash is a bare version, one slash splits
\* group from version, anything else does not parse and leaves both empty.
ParseGroupVersion(av) ==
    IF Len(av) = 0 THEN [group |-> "", version |-> ""]
    ELSE IF Len(av) = 1 THEN [group |-> "", version |-> av[1]]
    ELSE IF Len(av) = 2 THEN [group |-> av[1], version |-> av[2]]
    ELSE [group |-> "", version |-> ""]

\* metadata.GetObjectKind().GroupVersionKind()
GroupVersionKind(av, kind) ==
    LET gv == ParseGroupVersion(av)
    IN [group |-> gv.group, version |-> gv.version, kind |-> kind]

\* gvk.Empty() that wrongly demands a version before it rejects.
GVKEmptyNeedsVersion(gvk) == gvk.group = "" /\ gvk.kind = "" /\ gvk.version # ""

\* gvk.Empty()
GVKEmpty(gvk) == gvk.group = "" /\ gvk.version = "" /\ gvk.kind = ""

NoGVK == [group |-> "", version |-> "", kind |-> ""]
NoObj == [apiVersion |-> <<>>, namespace |-> ""]

\* What one ValidateDocument call did: the error returned, the steps
\* executed in order, and what the before-create check was given.
DocResult(err, steps, gvk, obj, nsScoped, ctxNs) ==
    [err |-> err, steps |-> steps, gvk |-> gvk, obj |-> obj,
     nsScoped |-> nsScoped, ctxNs |-> ctxNs]

\* Lines 256-265: the native-type path of a CustomResourceDefinition.
ValidateCRD(d, gvk) ==
    IF d.failAt = "decode"
    THEN DocResult(Plain("decode"), <<"Unmarshal", "GVKCheck", "NativeDecode">>,
                   gvk, NoObj, FALSE, "")
    ELSE DocResult(IF d.failAt = "before" THEN StatusErr("Invalid") ELSE Nil,
                   <<"Unmarshal", "GVKCheck", "NativeDecode", "NativeBeforeCreate">>,
                   gvk, [apiVersion |-> d.apiVersion, namespace |-> d.namespace],
                   FALSE, "")

\* Normalize with the namespace defaulting of lines 305-307 left out.
NormalizeNoDefault(obj, gvk, isNamespaced) ==
    LET core == obj.apiVersion = <<"v1">>
    IN [obj |-> [apiVersion |-> IF core THEN <<"core", "v1">> ELSE obj.apiVersion,
                 namespace |-> obj.namespace],
        gvk |-> IF core THEN [gvk EXCEPT !.group = "core"] ELSE gvk]

\* Lines 304-313: namespace defaulting and the core/v1 rewrite.
Normalize(obj, gvk, isNamespaced) ==
    LET ns == IF isNamespaced /\ obj.namespace = "" THEN "default"
              ELSE obj.namespace
        core == obj.apiVersion = <<"v1">>
    IN [obj |-> [apiVersion |-> IF core THEN <<"core", "v1">> ELSE obj.apiVersion,
                 namespace |-> ns],
        gvk |-> IF core THEN [gvk EXCEPT !.group = "core"] ELSE gvk]

\* Lines 267-320: the schema-driven path.
ValidateGeneric(d, gvk) ==
    LET s1 == <<"Unmarshal", "GVKCheck", "ValidatorsForGVK">>
        s2 == Append(s1, "StructuralSchema")
        s3 == Append(s2, "Decoder")
        s4 == Append(s3, "Decode")
        s5 == Append(s4, "Accessor")
        s6 == Append(s5, "BeforeCreate")
        n == Normalize([apiVersion |-> d.apiVersion, namespace |-> d.namespace],
                       gvk, d.nsScoped)
    IN CASE d.failAt = "resolve" ->
              DocResult(Wrap("failed to retrieve validator", Plain("resolve")),
                        s1, gvk, NoObj, FALSE, "")
         [] d.failAt = "ssErr" ->
              DocResult(Plain("structural schema"), s2, gvk, NoObj, FALSE, "")
         [] d.failAt = "ssNil" ->
              DocResult(Nil, s2, gvk, NoObj, FALSE, "")
         [] d.failAt = "decoder" ->
              DocResult(Plain("decoder"), s3, gvk, NoObj, FALSE, "")
         [] d.failAt = "media" ->
              DocResult(Plain("unsupported media type"), s3, gvk, NoObj, FALSE, "")
         [] d.failAt = "decode" ->
              DocResult(Plain("decode"), s4, gvk, NoObj, FALSE, "")
         [] d.failAt = "accessor" ->
              DocResult(FieldErr("metadata"), s5, gvk, NoObj, FALSE, "")
         [] OTHER ->
              DocResult(IF d.failAt = "before" THEN StatusErr("Invalid") ELSE Nil,
                        s6, n.gvk, n.obj, d.nsScoped, n.obj.namespace)

\* The condition of line 256 with the group test left out.
IsCRDKindOnly(gvk) == gvk.kind = "CustomResourceDefinition"

\* The condition of line 256.
IsCRD(gvk) ==
    gvk.group = "apiextensions.k8s.io" /\ gvk.kind = "CustomResourceDefinition"

\* ValidateDocument, lines 241-321.
ValidateDocument(d) ==
    IF ~d.parses
    THEN DocResult(Wrap("failed to parse yaml", Plain("yaml")), <<"Unmarshal">>,
                   NoGVK, NoObj, FALSE, "")
    ELSE LET gvk == GroupVersionKind(d.apiVersion, d.kind)
         IN IF GVKEmpty(gvk)
            THEN DocResult(Plain("GVK cannot be empty"), <<"Unmarshal", "GVKCheck">>,
                           gvk, NoObj, FALSE, "")
            ELSE IF IsCRD(gvk) THEN ValidateCRD(d, gvk)
            ELSE ValidateGeneric(d, gvk)

NoDoc == [empty |-> FALSE, parses |-> FALSE, apiVersion |-> <<>>, kind |-> "none",
          namespace |-> "", nsScoped |-> FALSE, failAt |-> "none"]
NoRes == DocResult(Nil, <<>>, NoGVK, NoObj, FALSE, "")
NoLast == [path |-> "", read |-> FALSE, split |-> FALSE, docs |-> <<>>,
           passed |-> <<>>]

(***************************************************************************)
(* SpecDoc: ValidateDocument applied to one document.                       *)
(***************************************************************************)
Idle ==
    /\ outputFormat = "human" /\ isYaml = [p \in Paths |-> TRUE]
    /\ factoryErr = FALSE /\ findErr = FALSE /\ marshalErr = FALSE
    /\ files = <<>> /\ idx = 1 /\ filesErrors = <<>> /\ last = NoLast
    /\ out = <<>> /\ errOut = <<>> /\ jsonOut = <<>>
    /\ query = [asked |-> FALSE, hasError |-> FALSE, hasFileError |-> <<>>]
    /\ ret = "none"

InitDoc ==
    /\ pc = "doc"
    /\ doc \in Docs
    /\ docRes = NoRes
    /\ Idle

CallValidateDocument ==
    /\ pc = "doc"
    /\ docRes' = ValidateDocument(doc)
    /\ pc' = "docDone"
    /\ UNCHANGED <<outputFormat, isYaml, factoryErr, findErr, marshalErr, files,
                   idx, filesErrors, last, out, errOut, jsonOut, query, ret, doc>>

NextDoc == CallValidateDocument

SpecDoc == InitDoc /\ [][NextDoc]_vars

(***************************************************************************)
(* FilesErrors: a map from path to a list of errors.  A Go map read at a    *)
(* missing key gives the nil slice.                                         *)
(***************************************************************************)
Get(fe, path) == IF path \in DOMAIN fe THEN fe[path] ELSE <<>>

\* filesErrors[path] = errors (line 195)
Put(fe, path, errs) ==
    [q \in DOMAIN fe \cup {path} |-> IF q = path THEN errs ELSE fe[q]]

\* hasFileError that looks at the first entry only.
hasFileErrorFirstOnly(fe, path) ==
    Len(Get(fe, path)) > 0 /\ Get(fe, path)[1] # Nil

\* hasFileError, lines 76-83.
hasFileError(fe, path) ==
    \E i \in 1..Len(Get(fe, path)) : Get(fe, path)[i] # Nil

\* hasError, lines 66-73.
hasError(fe) == \E path \in DOMAIN fe : hasFileError(fe, path)

(***************************************************************************)
(* errorToStatus, lines 116-145.  A status is its Status field, its Reason  *)
(* and the causes of its Details.                                           *)
(***************************************************************************)
SuccessStatus == [status |-> "Success", reason |-> "", causes |-> <<>>]

\* statusErr.ErrStatus: the status the error carries.
ErrStatus(e) == [status |-> "Failure", reason |-> e.msg, causes |-> <<>>]

\* k8serrors.NewInvalid(schema.GroupKind{}, "", fieldErrs).ErrStatus
NewInvalid(fieldErrs) ==
    [status |-> "Failure", reason |-> "Invalid",
     causes |-> [i \in 1..Len(fieldErrs) |-> fieldErrs[i].msg]]

\* k8serrors.NewInternalError(err).ErrStatus, err given by its text
NewInternalError(text) ==
    [status |-> "Failure", reason |-> "InternalError", causes |-> <<text>>]

RECURSIVE SelectField(_)
\* The fieldErrs of lines 126-135: the field error found in each member.
SelectField(errs) ==
    IF Len(errs) = 0 THEN <<>>
    ELSE LET f == As(Head(errs), "field")
         IN (IF f # Nil THEN <<f>> ELSE <<>>) \o SelectField(Tail(errs))

RECURSIVE SelectOther(_)
\* The otherErrs of lines 126-135: the members that hold no field error.
SelectOther(errs) ==
    IF Len(errs) = 0 THEN <<>>
    ELSE (IF As(Head(errs), "field") = Nil THEN <<Head(errs)>> ELSE <<>>)
         \o SelectOther(Tail(errs))

\* errorToStatus whose aggregate branch reports Invalid as soon as one member
\* is a field error.
errorToStatusAnyField(err) ==
    IF As(err, "status") # Nil THEN ErrStatus(As(err, "status"))
    ELSE IF As(err, "field") # Nil THEN NewInvalid(<<As(err, "field")>>)
    ELSE IF As(err, "aggregate") # Nil
         THEN LET errs == As(err, "aggregate").inner
              IN IF Len(SelectField(errs)) > 0
                 THEN NewInvalid(SelectField(errs))
                 ELSE NewInternalError(ErrorText(Aggregate(SelectOther(errs))))
    ELSE IF err # Nil THEN NewInternalError(ErrorText(err))
    ELSE SuccessStatus

errorToStatus(err) ==
    IF As(err, "status") # Nil THEN ErrStatus(As(err, "status"))
    ELSE IF As(err, "field") # Nil THEN NewInvalid(<<As(err, "field")>>)
    ELSE IF As(err, "aggregate") # Nil
         THEN LET errs == As(err, "aggregate").inner
              IN IF Len(SelectOther(errs)) = 0
                 THEN NewInvalid(SelectField(errs))
                 ELSE NewInternalError(ErrorText(Aggregate(SelectOther(errs))))
    ELSE IF err # Nil THEN NewInternalError(ErrorText(err))
    ELSE SuccessStatus

\* printJsonErrors, lines 341-346: the map handed to json.MarshalIndent.  A
\* path gets a key when the first record is appended to it.
printJsonErrors(fe) ==
    [path \in {q \in DOMAIN fe : Len(fe[q]) > 0} |->
        [i \in 1..Len(fe[path]) |-> errorToStatus(fe[path][i])]]

\* The orders in which a range over a map with these keys may visit them: Go
\* leaves the iteration order of a map unspecified.
MapOrders(keys) ==
    {o \in [1..Cardinality(keys) -> keys] :
        \A i, j \in 1..Cardinality(keys) : i # j => o[i] # o[j]}

\* Lines 328-332: the messages of the non-nil entries, in entry order.
RECURSIVE ErrLines(_)
ErrLines(errs) ==
    IF Len(errs) = 0 THEN <<>>
    ELSE (IF Head(errs) # Nil THEN <<ErrorText(Head(errs))>> ELSE <<>>)
         \o ErrLines(Tail(errs))

RECURSIVE Concat(_)
Concat(ss) == IF Len(ss) = 0 THEN <<>> ELSE Head(ss) \o Concat(Tail(ss))

\* printHumanErrors, lines 323-338, visiting the map in the given order:
\* what goes to outWriter and what goes to errWriter.
printHumanErrors(fe, order) ==
    [out |-> [i \in 1..Len(order) |->
                [path |-> order[i],
                 verdict |-> IF hasFileError(fe, order[i]) THEN "ERROR" ELSE "OK"]],
     err |-> Concat([i \in 1..Len(order) |->
                IF hasFileError(fe, order[i]) THEN ErrLines(fe[order[i]])
                ELSE <<>>])]

(***************************************************************************)
(* ValidateFile, lines 215-239.  readOK is whether os.ReadFile succeeded,   *)
(* splitOK whether utils.SplitYamlDocuments did, docs the documents of the  *)
(* file (for a file that is not YAML, the one document that is its bytes).  *)
(* The result holds the returned list and the indices of the documents      *)
(* that were passed to ValidateDocument.                                    *)
(***************************************************************************)
RECURSIVE ValidateDocsStopAtError(_, _)
\* The loop of lines 226-232 returning at the first document that fails.
ValidateDocsStopAtError(docs, i) ==
    IF i > Len(docs) THEN [errs |-> <<>>, passed |-> <<>>]
    ELSE IF docs[i].empty
         THEN LET rest == ValidateDocsStopAtError(docs, i + 1)
              IN [errs |-> <<Nil>> \o rest.errs, passed |-> rest.passed]
    ELSE IF ValidateDocument(docs[i]).err # Nil
         THEN [errs |-> <<ValidateDocument(docs[i]).err>>, passed |-> <<i>>]
    ELSE LET rest == ValidateDocsStopAtError(docs, i + 1)
         IN [errs |-> <<Nil>> \o rest.errs, passed |-> <<i>> \o rest.passed]

RECURSIVE ValidateDocsNoEmptyCheck(_, _)
\* The loop of lines 226-232 without the IsEmptyYamlDocument test.
ValidateDocsNoEmptyCheck(docs, i) ==
    IF i > Len(docs) THEN [errs |-> <<>>, passed |-> <<>>]
    ELSE LET rest == ValidateDocsNoEmptyCheck(docs, i + 1)
         IN [errs |-> <<ValidateDocument(docs[i]).err>> \o rest.errs,
             passed |-> <<i>> \o rest.passed]

RECURSIVE ValidateDocsSkipEmpty(_, _)
\* The loop of lines 226-232 recording nothing for an empty document.
ValidateDocsSkipEmpty(docs, i) ==
    IF i > Len(docs) THEN [errs |-> <<>>, passed |-> <<>>]
    ELSE LET rest == ValidateDocsSkipEmpty(docs, i + 1)
         IN IF docs[i].empty THEN rest
            ELSE [errs |-> <<ValidateDocument(docs[i]).err>> \o rest.errs,
                  passed |-> <<i>> \o rest.passed]

RECURSIVE ValidateDocs(_, _)
\* The loop of lines 226-232, from document i on.
ValidateDocs(docs, i) ==
    IF i > Len(docs) THEN [errs |-> <<>>, passed |-> <<>>]
    ELSE LET rest == ValidateDocs(docs, i + 1)
         IN IF docs[i].empty
            THEN [errs |-> <<Nil>> \o rest.errs, passed |-> rest.passed]
            ELSE [errs |-> <<ValidateDocument(docs[i]).err>> \o rest.errs,
                  passed |-> <<i>> \o rest.passed]

ValidateFile(yaml, readOK, splitOK, docs) ==
    IF ~readOK
    THEN [errs |-> <<Wrap("error reading file", Plain("os"))>>, passed |-> <<>>]
    ELSE IF yaml
         THEN IF ~splitOK THEN [errs |-> <<Plain("split")>>, passed |-> <<>>]
              ELSE ValidateDocs(docs, 1)
    ELSE [errs |-> <<ValidateDocument(docs[1]).err>>, passed |-> <<1>>]

\* Lines 208-212 returning nil whatever was found.
RunReturnAlwaysNil(fe) == "nil"

\* Lines 208-212: what Run returns once the report is printed.
RunReturn(fe) == IF hasError(fe) THEN "error" ELSE "nil"

(***************************************************************************)
(* Spec: one run of commandFlags.Run, lines 147-213.                        *)
(***************************************************************************)
ValidPod == [empty |-> FALSE, parses |-> TRUE, apiVersion |-> <<"v1">>,
             kind |-> "Pod", namespace |-> "", nsScoped |-> TRUE,
             failAt |-> "none"]
InvalidPod == [ValidPod EXCEPT !.failAt = "before"]
RunDocs == {EmptyDoc, ValidPod, InvalidPod}

Init ==
    /\ pc = "start"
    /\ outputFormat \in {"human", "json"}
    /\ isYaml \in [Paths -> BOOLEAN]
    /\ factoryErr = FALSE /\ findErr = FALSE /\ marshalErr = FALSE
    /\ files = <<>> /\ idx = 1 /\ filesErrors = <<>> /\ last = NoLast
    /\ out = <<>> /\ errOut = <<>> /\ jsonOut = <<>>
    /\ query = [asked |-> FALSE, hasError |-> FALSE, hasFileError |-> <<>>]
    /\ ret = "none" /\ doc = NoDoc /\ docRes = NoRes

\* Lines 149-185: validatorfactory.New fails and Run returns its error.
NewFactoryFails ==
    /\ pc = "start"
    /\ factoryErr' = TRUE
    /\ ret' = "error"
    /\ pc' = "aborted"
    /\ UNCHANGED <<outputFormat, isYaml, findErr, marshalErr, files, idx,
                   filesErrors, last, out, errOut, jsonOut, query, doc, docRes>>

\* Lines 149-185: the factory is built.
NewFactoryOK ==
    /\ pc = "start"
    /\ pc' = "find"
    /\ UNCHANGED <<outputFormat, isYaml, factoryErr, findErr, marshalErr, files,
                   idx, filesErrors, last, out, errOut, jsonOut, query, ret,
                   doc, docRes>>

\* Lines 187-190: utils.FindFiles fails and Run returns its error.
FindFilesFails ==
    /\ pc = "find"
    /\ findErr' = TRUE
    /\ ret' = "error"
    /\ pc' = "aborted"
    /\ UNCHANGED <<outputFormat, isYaml, factoryErr, marshalErr, files, idx,
                   filesErrors, last, out, errOut, jsonOut, query, doc, docRes>>

\* Lines 187-192: utils.FindFiles returns the files.
FindFilesOK ==
    /\ pc = "find"
    /\ \E fs \in SeqsUpTo(Paths, MaxFiles) : files' = fs
    /\ pc' = "loop"
    /\ UNCHANGED <<outputFormat, isYaml, factoryErr, findErr, marshalErr, idx,
                   filesErrors, last, out, errOut, jsonOut, query, ret, doc,
                   docRes>>

\* The contents a file may turn out to have when ValidateFile reads it.
FileContents(yaml) ==
    {[read |-> FALSE, split |-> FALSE, docs |-> <<>>]}
    \cup (IF yaml
          THEN {[read |-> TRUE, split |-> FALSE, docs |-> <<>>]}
               \cup [read : {TRUE}, split : {TRUE},
                     docs : SeqsUpTo(RunDocs, MaxDocs)]
          ELSE [read : {TRUE}, split : {TRUE}, docs : {<<d>> : d \in RunDocs}])

\* Lines 193-196: one iteration of the loop over the files.
ValidateNextFile ==
    /\ pc = "loop"
    /\ idx <= Len(files)
    /\ \E c \in FileContents(isYaml[files[idx]]) :
         LET path == files[idx]
             r == ValidateFile(isYaml[path], c.read, c.split, c.docs)
         IN /\ filesErrors' = Put(filesErrors, path, r.errs)
            /\ last' = [path |-> path, read |-> c.read, split |-> c.split,
                        docs |-> c.docs, passed |-> r.passed]
    /\ idx' = idx + 1
    /\ UNCHANGED <<pc, outputFormat, isYaml, factoryErr, findErr, marshalErr,
                   files, out, errOut, jsonOut, query, ret, doc, docRes>>

\* Lines 198-201 and 208-212: the human report, then the return value.
RenderHuman ==
    /\ pc = "loop"
    /\ idx > Len(files)
    /\ outputFormat = "human"
    /\ \E order \in MapOrders(DOMAIN filesErrors) :
         /\ out' = printHumanErrors(filesErrors, order).out
         /\ errOut' = printHumanErrors(filesErrors, order).err
    /\ ret' = RunReturn(filesErrors)
    /\ pc' = "done"
    /\ UNCHANGED <<outputFormat, isYaml, factoryErr, findErr, marshalErr, files,
                   idx, filesErrors, last, jsonOut, query, doc, docRes>>

\* Lines 202-206 and 208-212: the JSON report, then the return value.
RenderJson ==
    /\ pc = "loop"
    /\ idx > Len(files)
    /\ outputFormat = "json"
    /\ jsonOut' = printJsonErrors(filesErrors)
    /\ ret' = RunReturn(filesErrors)
    /\ pc' = "done"
    /\ UNCHANGED <<outputFormat, isYaml, factoryErr, findErr, marshalErr, files,
                   idx, filesErrors, last, out, errOut, query, doc, docRes>>

\* Lines 203-205 and 347-350: json.MarshalIndent fails, Run returns the error.
RenderJsonFails ==
    /\ pc = "loop"
    /\ idx > Len(files)
    /\ outputFormat = "json"
    /\ marshalErr' = TRUE
    /\ ret' = "error"
    /\ pc' = "done"
    /\ UNCHANGED <<outputFormat, isYaml, factoryErr, findErr, files, idx,
                   filesErrors, last, out, errOut, jsonOut, query, doc, docRes>>

Next ==
    \/ NewFactoryFails
    \/ NewFactoryOK
    \/ FindFilesFails
    \/ FindFilesOK
    \/ ValidateNextFile
    \/ RenderHuman
    \/ RenderJson
    \/ RenderJsonFails

Spec == Init /\ [][Next]_vars

(***************************************************************************)
(* SpecReport: the queries and the renderers applied to a FilesErrors       *)
(* mapping drawn from a bounded set.                                        *)
(***************************************************************************)
ErrAtoms == {StatusErr("Invalid"), StatusErr("NotFound"), FieldErr("spec.a"),
             FieldErr("spec.b"), Plain("boom")}
ErrWrapped == {Wrap("ctx", e) : e \in ErrAtoms}
ErrMembers == ErrAtoms \cup ErrWrapped \cup {Aggregate(<<FieldErr("spec.a")>>)}
ErrAggregates == {Aggregate(s) : s \in SeqsUpTo(ErrMembers, MaxAgg) \ {<<>>}}
ErrValues == {Nil} \cup ErrAtoms \cup ErrWrapped \cup ErrAggregates
               \cup {Wrap("ctx", Aggregate(<<e>>)) : e \in ErrAtoms}

\* The entries used in the many-path mappings.
EntryValues == {Nil, StatusErr("Invalid"), FieldErr("spec.a"), Plain("boom"),
                Aggregate(<<FieldErr("spec.a"), Plain("boom")>>)}

Mappings == UNION {[D -> SeqsUpTo(EntryValues, MaxEntries)] : D \in SUBSET Paths}
              \cup {[p \in {"f1"} |-> <<e>>] : e \in ErrValues}

InitReport ==
    /\ pc = "report"
    /\ filesErrors \in Mappings
    /\ outputFormat = "human" /\ isYaml = [p \in Paths |-> TRUE]
    /\ factoryErr = FALSE /\ findErr = FALSE /\ marshalErr = FALSE
    /\ files = <<>> /\ idx = 1 /\ last = NoLast
    /\ out = <<>> /\ errOut = <<>> /\ jsonOut = <<>>
    /\ query = [asked |-> FALSE, hasError |-> FALSE, hasFileError |-> <<>>]
    /\ ret = "none" /\ doc = NoDoc /\ docRes = NoRes

\* hasError() and hasFileError(p) for every p are called on the mapping.
CallHasError ==
    /\ pc = "report"
    /\ ~query.asked
    /\ query' = [asked |-> TRUE, hasError |-> hasError(filesErrors),
                 hasFileError |-> [p \in Paths |-> hasFileError(filesErrors, p)]]
    /\ UNCHANGED <<pc, outputFormat, isYaml, factoryErr, findErr, marshalErr,
                   files, idx, filesErrors, last, out, errOut, jsonOut, ret,
                   doc, docRes>>

CallPrintJson ==
    /\ pc = "report"
    /\ ret = "none"
    /\ jsonOut' = printJsonErrors(filesErrors)
    /\ ret' = "printed"
    /\ UNCHANGED <<pc, outputFormat, isYaml, factoryErr, findErr, marshalErr,
                   files, idx, filesErrors, last, out, errOut, query, doc, docRes>>

NextReport == CallHasError \/ CallPrintJson

SpecReport == InitReport /\ [][NextReport]_vars

(***************************************************************************)
(* Properties of ValidateDocument, checked under SpecDoc.                   *)
(***************************************************************************)
NativeSteps == {"NativeDecode", "NativeBeforeCreate"}
GenericSteps == {"ValidatorsForGVK", "StructuralSchema", "Decoder", "Decode",
                 "Accessor", "BeforeCreate"}
StepSet(r) == {r.steps[i] : i \in 1..Len(r.steps)}

\* The document declares group apiextensions.k8s.io and kind
\* CustomResourceDefinition.
DeclaresCRD(d) ==
    /\ d.parses
    /\ Len(d.apiVersion) = 2
    /\ d.apiVersion[1] = "apiextensions.k8s.io"
    /\ d.kind = "CustomResourceDefinition"

\* C5: a CustomResourceDefinition document never reaches ValidatorsForGVK and
\* runs only the native decode and before-create steps; a document of any
\* other GVK never runs a native step, and when it is decoded or validated
\* it went through ValidatorsForGVK first.
C5_CRDDispatch ==
    pc = "docDone" =>
        /\ DeclaresCRD(doc) =>
             /\ StepSet(docRes) \cap GenericSteps = {}
             /\ "NativeDecode" \in StepSet(docRes)
        /\ ~DeclaresCRD(doc) =>
             /\ StepSet(docRes) \cap NativeSteps = {}
             /\ (StepSet(docRes) \cap {"Decode", "BeforeCreate"} # {}
                   => "ValidatorsForGVK" \in StepSet(docRes))

C5_Witness ==
    /\ pc = "docDone"
    /\ DeclaresCRD(doc)
    /\ "NativeBeforeCreate" \in StepSet(docRes)

\* C6: a parseable document with empty apiVersion and empty kind returns
\* "GVK cannot be empty" having run only the parse and the GVK check; a
\* document that does not parse returns the parse error having run only the
\* parse.
C6_EmptyGVK ==
    pc = "docDone" =>
        /\ (doc.parses /\ doc.apiVersion = <<>> /\ doc.kind = "") =>
             /\ docRes.err = Plain("GVK cannot be empty")
             /\ docRes.steps = <<"Unmarshal", "GVKCheck">>
        /\ ~doc.parses =>
             /\ docRes.err.k = "wrap"
             /\ docRes.err.msg = "failed to parse yaml"
             /\ docRes.steps = <<"Unmarshal">>

C6_Witness ==
    /\ pc = "docDone"
    /\ doc.parses /\ ~doc.empty /\ doc.apiVersion = <<>> /\ doc.kind = ""
    /\ docRes.err = Plain("GVK cannot be empty")

\* C8: when the generic before-create check runs, a namespaced document has
\* a namespace ("default" if it declared none, its own otherwise) and the
\* request context carries it; a document that declared apiVersion v1 has
\* group "core" and apiVersion core/v1; a cluster-scoped document without a
\* namespace still has none.
C8_NormalizedBeforeCreate ==
    (pc = "docDone" /\ "BeforeCreate" \in StepSet(docRes)) =>
        /\ doc.nsScoped =>
             /\ docRes.obj.namespace # ""
             /\ docRes.obj.namespace =
                  (IF doc.namespace = "" THEN "default" ELSE doc.namespace)
             /\ docRes.ctxNs = docRes.obj.namespace
        /\ doc.apiVersion = <<"v1">> =>
             /\ docRes.gvk.group = "core"
             /\ docRes.obj.apiVersion = <<"core", "v1">>
        /\ (~doc.nsScoped /\ doc.namespace = "") => docRes.obj.namespace = ""

C8_Witness ==
    /\ pc = "docDone"
    /\ "BeforeCreate" \in StepSet(docRes)
    /\ doc.nsScoped /\ doc.namespace = "" /\ doc.apiVersion = <<"v1">>
    /\ docRes.obj.namespace = "default"

(***************************************************************************)
(* Properties of the report aggregator, checked under SpecReport.           *)
(***************************************************************************)
\* The list stored under p holds a non-nil entry.
HoldsNonNil(fe, p) ==
    p \in DOMAIN fe /\ \E i \in DOMAIN fe[p] : fe[p][i].k # "nil"

\* C1: hasError() is true exactly when some path's list holds a non-nil
\* entry; hasFileError(p) is true exactly when the list stored under p holds
\* one, is false for a path that is not a key, and is not changed by storing
\* another list under another path.
C1_HasError ==
    query.asked =>
        /\ query.hasError = (\E p \in Paths : HoldsNonNil(filesErrors, p))
        /\ \A p \in Paths :
             /\ query.hasFileError[p] = HoldsNonNil(filesErrors, p)
             /\ p \notin DOMAIN filesErrors => ~query.hasFileError[p]
             /\ \A q \in Paths \ {p} :
                  \A l \in {<<>>, <<Nil>>, <<Plain("boom")>>} :
                     hasFileError(Put(filesErrors, q, l), p) = query.hasFileError[p]

C1_Witness ==
    /\ query.asked
    /\ query.hasError
    /\ \E p \in DOMAIN filesErrors :
         /\ ~query.hasFileError[p]
         /\ Len(filesErrors[p]) > 0
    /\ \E p \in DOMAIN filesErrors :
         /\ query.hasFileError[p]
         /\ filesErrors[p][1] = Nil

\* The error is, or wraps, an error of dynamic type k.
Holds(e, k) ==
    \/ e.k = k
    \/ e.k = "wrap" /\ e.inner[1].k = k
    \/ e.k = "wrap" /\ e.inner[1].k = "wrap" /\ e.inner[1].inner[1].k = k

\* The aggregate that e is or wraps.
AggregateOf(e) == IF e.k = "aggregate" THEN e ELSE e.inner[1]

\* The field error that e is or wraps.
FieldOf(e) == IF e.k = "field" THEN e ELSE e.inner[1]

\* The status record s is the one the claim gives to the entry e.
Classified(e, s) ==
    IF e = Nil THEN s.status = "Success"
    ELSE IF Holds(e, "status")
         THEN s.status = "Failure" /\ s.causes = <<>>
              /\ \E r \in {"Invalid", "NotFound"} :
                    s.reason = r /\ (e = StatusErr(r) \/ e = Wrap("ctx", StatusErr(r)))
    ELSE IF Holds(e, "field")
         THEN s.status = "Failure" /\ s.reason = "Invalid"
              /\ s.causes = <<FieldOf(e).msg>>
    ELSE IF Holds(e, "aggregate")
            /\ \A i \in DOMAIN AggregateOf(e).inner :
                  Holds(AggregateOf(e).inner[i], "field")
         THEN s.status = "Failure" /\ s.reason = "Invalid"
              /\ s.causes = [i \in DOMAIN AggregateOf(e).inner |->
                                FieldOf(AggregateOf(e).inner[i]).msg]
    ELSE s.status = "Failure" /\ s.reason = "InternalError"

\* C9: the map printJsonErrors marshals has, for every path, one status
\* record per entry of the path's list, in entry order, and each record is
\* success for nil, the carried status for a status error, Invalid with the
\* field errors for a field error or an aggregate of field errors only, and
\* InternalError for any other error.
C9_JsonRecords ==
    ret = "printed" =>
        \A p \in DOMAIN filesErrors :
            LET recs == IF p \in DOMAIN jsonOut THEN jsonOut[p] ELSE <<>>
            IN /\ Len(recs) = Len(filesErrors[p])
               /\ \A i \in DOMAIN recs : Classified(filesErrors[p][i], recs[i])

C9_Witness ==
    /\ ret = "printed"
    /\ \E p \in DOMAIN jsonOut :
         /\ Len(jsonOut[p]) = 2
         /\ jsonOut[p][1] = SuccessStatus
         /\ jsonOut[p][2].reason = "InternalError"
         /\ filesErrors[p][2].k = "aggregate"

(***************************************************************************)
(* Properties of Run and ValidateFile, checked under Spec.                  *)
(***************************************************************************)
\* No file's list holds a non-nil error.
NoFileHasError == \A p \in Paths : ~HoldsNonNil(filesErrors, p)

Returned == pc \in {"aborted", "done"}

\* C2 as stated: Run returns nil exactly when no file has an error.
C2_ExitIffNoError ==
    Returned => (ret = "nil" <=> NoFileHasError)

\* C2 as amended: Run returns nil exactly when the factory was built, the
\* files were found, the report was rendered and no file has an error; it
\* returns an error in every other case.
C2_ExitIffRanAndNoError ==
    Returned =>
        /\ ret \in {"nil", "error"}
        /\ ret = "nil" <=>
             (~factoryErr /\ ~findErr /\ ~marshalErr /\ NoFileHasError)

C2_Witness ==
    /\ pc = "done"
    /\ ret = "nil"
    /\ Len(files) = 2
    /\ \E p \in DOMAIN filesErrors : Len(filesErrors[p]) > 0

\* The last ValidateFile call read its file and, for a YAML file, split it.
LastHasDocs == last.path # "" /\ last.read /\ last.split

Passed(i) == \E j \in DOMAIN last.passed : last.passed[j] = i

\* C3 as stated: every empty document of every file is recorded as nil and
\* is not passed to ValidateDocument.
C3_EmptyNeverValidated ==
    LastHasDocs =>
        \A i \in DOMAIN last.docs :
            last.docs[i].empty =>
                /\ i \in DOMAIN filesErrors[last.path]
                /\ filesErrors[last.path][i] = Nil
                /\ ~Passed(i)

\* C3 as amended: every empty document split from a YAML file is recorded as
\* nil and is not passed to ValidateDocument.
C3_EmptyYamlNeverValidated ==
    (LastHasDocs /\ isYaml[last.path]) =>
        \A i \in DOMAIN last.docs :
            last.docs[i].empty =>
                /\ i \in DOMAIN filesErrors[last.path]
                /\ filesErrors[last.path][i] = Nil
                /\ ~Passed(i)

C3_Witness ==
    /\ LastHasDocs
    /\ isYaml[last.path]
    /\ Len(last.docs) = 2
    /\ ~last.docs[1].empty
    /\ last.docs[2].empty
    /\ last.passed = <<1>>
    /\ filesErrors[last.path][2] = Nil

\* The document is one ValidateDocument rejects: it does not parse, it has no
\* GVK, or a step of the path it takes fails.
DocFails(d) ==
    \/ ~d.parses
    \/ (d.apiVersion = <<>> \/ Len(d.apiVersion) > 2) /\ d.kind = ""
    \/ DeclaresCRD(d) /\ d.failAt \in {"decode", "before"}
    \/ ~DeclaresCRD(d) /\ d.failAt \notin {"none", "ssNil"}

\* C4: a YAML file read and split into n documents gets n entries, entry i
\* nil exactly when document i is empty or valid; with a valid and an invalid
\* document the file has an error.
C4_OneEntryPerDocument ==
    (LastHasDocs /\ isYaml[last.path]) =>
        LET errs == filesErrors[last.path]
        IN /\ Len(errs) = Len(last.docs)
           /\ \A i \in DOMAIN last.docs :
                 (errs[i] = Nil) <=> (last.docs[i].empty \/ ~DocFails(last.docs[i]))
           /\ (\E i \in DOMAIN last.docs :
                  ~last.docs[i].empty /\ DocFails(last.docs[i]))
                => (hasFileError(filesErrors, last.path) /\ hasError(filesErrors))

C4_Witness ==
    /\ LastHasDocs
    /\ isYaml[last.path]
    /\ last.docs = <<ValidPod, InvalidPod>>
    /\ Len(filesErrors[last.path]) = 2
    /\ filesErrors[last.path][1] = Nil
    /\ filesErrors[last.path][2] # Nil
    /\ hasError(filesErrors)

\* C7 as stated: only a failure to build the factory ends the run before a
\* document is processed.
C7_OnlyFactoryAborts ==
    pc = "aborted" => factoryErr

\* C7 as amended: only a failure to build the factory or to find the files
\* ends the run before a document is processed; otherwise every file found
\* gets an entry list, whatever the earlier files and documents gave, and
\* every non-empty document of a split YAML file is validated and recorded.
C7_FailuresAreCaptured ==
    /\ pc = "aborted" =>
         /\ factoryErr \/ findErr
         /\ filesErrors = <<>> /\ last = NoLast
    /\ pc \in {"loop", "done"} =>
         /\ ~factoryErr /\ ~findErr
         /\ \A i \in 1..(idx - 1) : files[i] \in DOMAIN filesErrors
    /\ pc = "done" => idx = Len(files) + 1
    /\ (LastHasDocs /\ isYaml[last.path]) =>
         /\ Len(filesErrors[last.path]) = Len(last.docs)
         /\ \A i \in DOMAIN last.docs : ~last.docs[i].empty => Passed(i)

C7_Witness ==
    /\ pc = "done"
    /\ Len(files) = 2
    /\ files[1] # files[2]
    /\ hasFileError(filesErrors, files[1])
    /\ last.path = files[2]
    /\ isYaml[last.path]
    /\ last.docs = <<InvalidPod, ValidPod>>
    /\ last.passed = <<1, 2>>
    /\ filesErrors[files[2]][2] = Nil

RECURSIVE FirstOccurrences(_)
\* The paths of a list in the order in which they first occur.
FirstOccurrences(fs) ==
    IF Len(fs) = 0 THEN <<>>
    ELSE LET front == FirstOccurrences(SubSeq(fs, 1, Len(fs) - 1))
             x == fs[Len(fs)]
         IN IF \E i \in DOMAIN front : front[i] = x THEN front
            ELSE Append(front, x)

\* C10: the sections of the human report come in the order in which the
\* files were processed.
C10_ReportInFileOrder ==
    (pc = "done" /\ outputFormat = "human") =>
        [i \in DOMAIN out |-> out[i].path] = FirstOccurrences(files)

====
